---- MODULE Spec2Model ----
(***************************************************************************)
(* Model of create_deployment.py: the deployment registry kept in the      *)
(* Proxmox node's description field, the per-VM create / destroy steps and *)
(* the network cleanup, as a state machine of sequential runs against one  *)
(* host.                                                                   *)
(*                                                                         *)
(* Python strings are sequences of one-character strings, so that          *)
(* f-strings, split(','), startswith() and the `in` tests are computed     *)
(* rather than assumed.  The description field is a sequence of YAML       *)
(* lines.                                                                  *)
(***************************************************************************)
EXTENDS Integers, Sequences, FiniteSets, TLC

\* ------------------------------------------------------------------ bounds
\* Number of runs of the script in one behaviour.
MaxRuns == 2

\* Length of the network list of a VM, where the lists are enumerated.
MaxNets == 3
\* Highest N of the net<N> options a description gives, where they are enumerated.
MaxNetIndex == 2

\* ------------------------------------------------------- program constants
\* while i < 30 (destroy)
RetryBound == 30
\* base_id = multiplier * 10000
SlotSize == 10000

\* ----------------------------------------------------------------- strings
Range(s) == {s[k] : k \in DOMAIN s}

DigitChar == <<"0", "1", "2", "3", "4", "5", "6", "7", "8", "9">>

RECURSIVE IntToStr(_)
\* str(n) of a non-negative int, as an f-string renders it
IntToStr(n) ==
    IF n < 10 THEN <<DigitChar[n + 1]>>
    ELSE IntToStr(n \div 10) \o <<DigitChar[(n % 10) + 1]>>

\* s.startswith(p)
StartsWith(s, p) == Len(s) >= Len(p) /\ SubSeq(s, 1, Len(p)) = p

RECURSIVE SplitFrom(_, _, _, _)
SplitFrom(s, sep, k, cur) ==
    IF k > Len(s) THEN <<cur>>
    ELSE IF s[k] = sep THEN <<cur>> \o SplitFrom(s, sep, k + 1, <<>>)
    ELSE SplitFrom(s, sep, k + 1, Append(cur, s[k]))

\* s.split(sep) for a one-character separator
Split(s, sep) == SplitFrom(s, sep, 1, <<>>)

s_vmbr == <<"v", "m", "b", "r">>
s_net == <<"n", "e", "t">>
s_bridgeEq == <<"b", "r", "i", "d", "g", "e", "=">>
s_vmid == <<"v", "m", "i", "d">>
s_name == <<"n", "a", "m", "e">>
s_virtio == <<"v", "i", "r", "t", "i", "o">>
s_e1000 == <<"e", "1", "0", "0", "0">>
s_edge_lab == <<"e", "d", "g", "e", "-", "l", "a", "b">>
s_core_lab == <<"c", "o", "r", "e", "-", "l", "a", "b">>
s_router == <<"r", "o", "u", "t", "e", "r">>
s_fw == <<"f", "w">>
s_sw == <<"s", "w">>
s_tmpl_a == <<"t", "m", "p", "l", "-", "a">>
s_tmpl_b == <<"t", "m", "p", "l", "-", "b">>
s_cores == <<"c", "o", "r", "e", "s">>
s_eno1 == <<"e", "n", "o", "1">>
s_other == <<"o", "t", "h", "e", "r">>

\* ---------------------------------------- the description field as YAML text
\* One line of the description text.  k is the shape of the line:
\*   "hdr"        deployments:
\*   "hdr_empty"  deployments: []
\*   "item"       - <name>: <slot>
\*   "map"        <other key>: <value>
\*   "free"       a line of plain text
\*   "bad"        a line no YAML document can hold, such as  {
Line(k, name, slot) == [k |-> k, name |-> name, slot |-> slot]
HdrLine == Line("hdr", <<>>, 0)
HdrEmptyLine == Line("hdr_empty", <<>>, 0)
ItemLine(e) == Line("item", e.name, e.slot)
MapLine == Line("map", <<>>, 0)
FreeLine == Line("free", <<>>, 0)
BadLine == Line("bad", <<>>, 0)

\* One element of node_deployments: the single-key dict {name: slot}.
Entry(name, slot) == [name |-> name, slot |-> slot]

\* A Python value that is None or a list.
PyNone == [none |-> TRUE, list |-> <<>>]
PyList(l) == [none |-> FALSE, list |-> l]

\* A dump that writes the entries last to first.
yaml_dump_reversed(node_deployments) ==
    IF node_deployments = <<>> THEN <<HdrEmptyLine>>
    ELSE <<HdrLine>> \o [k \in 1..Len(node_deployments) |->
                            ItemLine(node_deployments[Len(node_deployments) + 1 - k])]

\* yaml.dump({'deployments': node_deployments}): the text written back.
yaml_dump(node_deployments) ==
    IF node_deployments = <<>> THEN <<HdrEmptyLine>>
    ELSE <<HdrLine>> \o [k \in 1..Len(node_deployments) |-> ItemLine(node_deployments[k])]

\* The lines of a text that follow the "deployments:" header, while they are items.
RECURSIVE ItemsFrom(_, _)
ItemsFrom(text, k) ==
    IF k > Len(text) \/ text[k].k # "item" THEN <<>>
    ELSE <<Entry(text[k].name, text[k].slot)>> \o ItemsFrom(text, k + 1)

\* yaml.safe_load(text): the document a text holds.
\*   exc   the exception raised, "" when none
\*   tag   "none" (empty document), "str" (a scalar), "map" (a mapping)
\*   deployments   the value of .get('deployments') on a mapping
yaml_safe_load(d) ==
    LET text == d.text
        kinds == {text[k].k : k \in DOMAIN text}
        r(exc, tag, dep) == [exc |-> exc, tag |-> tag, deployments |-> dep]
    IN  IF ~d.present THEN r("AttributeError", "none", PyNone)
        ELSE IF text = <<>> THEN r("", "none", PyNone)
        ELSE IF "bad" \in kinds THEN r("YAMLError", "none", PyNone)
        ELSE IF kinds = {"free"} THEN r("", "str", PyNone)
        ELSE IF text = <<HdrEmptyLine>> THEN r("", "map", PyList(<<>>))
        ELSE IF kinds = {"map"} THEN r("", "map", PyNone)
        ELSE IF text[1].k = "hdr" /\ Len(text) = 1 THEN r("", "map", PyNone)
        ELSE IF text[1].k = "hdr" /\ \A k \in 2..Len(text) : text[k].k = "item"
             THEN r("", "map", PyList(ItemsFrom(text, 2)))
        ELSE r("YAMLError", "none", PyNone)

\* A read that finds no registry in any description field.
get_node_deployments_unread(d) == [exc |-> "", value |-> PyList(<<>>)]

\* ProxmoxNode.get_node_deployments: the value returned, or the exception that
\* leaves the method.  AttributeError (None, or a value with no .get) is caught.
get_node_deployments(d) ==
    LET doc == yaml_safe_load(d)
    IN  IF doc.exc = "AttributeError" THEN [exc |-> "", value |-> PyList(<<>>)]
        ELSE IF doc.exc # "" THEN [exc |-> doc.exc, value |-> PyNone]
        ELSE IF doc.tag # "map" THEN [exc |-> "", value |-> PyList(<<>>)]
        ELSE [exc |-> "", value |-> doc.deployments]

\* dict(functools.reduce(lambda a, b: {**a, **b}, node_deployments)), with the
\* TypeError of None or of an empty list caught: the name -> slot dictionary.
\* A later element overrides an earlier one that has the same key.
node_deployments_dict(nd) ==
    IF nd.none \/ nd.list = <<>> THEN <<>>
    ELSE LET l == nd.list
             names == {l[k].name : k \in DOMAIN l}
             last(n) == CHOOSE k \in DOMAIN l :
                            l[k].name = n /\ \A j \in DOMAIN l : l[j].name = n => j <= k
         IN  [n \in names |-> l[last(n)].slot]

\* An allocation that gives every new name the first slot.
NewSlotFirst(l) == 1

\* multiplier = len(node_deployments) + 1
NewSlot(l) == Len(l) + 1

\* A base with a zero missing.
BaseIdShort(multiplier) == multiplier * 1000

\* base_id = multiplier * 10000
BaseId(multiplier) == multiplier * SlotSize

\* ------------------------------------------------------------ more strings
RECURSIVE StrToInt(_)
\* int(s) of a string of decimal digits
StrToInt(s) ==
    IF Len(s) = 0 THEN 0
    ELSE 10 * StrToInt(SubSeq(s, 1, Len(s) - 1))
         + ((CHOOSE d \in 1..10 : DigitChar[d] = s[Len(s)]) - 1)

RECURSIVE LStrip(_, _)
LStrip(s, chars) ==
    IF s # <<>> /\ s[1] \in chars THEN LStrip(Tail(s), chars) ELSE s

RECURSIVE RStrip(_, _)
RStrip(s, chars) ==
    IF s # <<>> /\ s[Len(s)] \in chars THEN RStrip(SubSeq(s, 1, Len(s) - 1), chars) ELSE s

\* s.strip(chars): every leading and trailing character that is in chars is removed
Strip(s, chars) == RStrip(LStrip(s, chars), chars)

\* ------------------------------------------------------------- option dicts
\* A dict is a function from keys (strings) to values.
EmptyDict == <<>>

\* a.update(b), as a new dict
DictUpdate(a, b) ==
    [k \in (DOMAIN a) \cup (DOMAIN b) |-> IF k \in DOMAIN b THEN b[k] ELSE a[k]]

\* d[key] = value, as a new dict
DictSet(d, key, value) ==
    [k \in (DOMAIN d) \cup {key} |-> IF k = key THEN value ELSE d[k]]

\* A delete that leaves the key in place.
DictKeep(d, key) == d

\* del(d[key]), as a new dict
DictDel(d, key) == [k \in (DOMAIN d) \ {key} |-> d[k]]

\* 'net{}'.format(i)
NetKey(i) == s_net \o IntToStr(i)

\* f'{nic_type},bridge={bridge}'
NetValue(nic_type, bridge) == nic_type \o <<",">> \o s_bridgeEq \o bridge

\* ----------------------------------------------------------- the host, args
\* A network of a deployment description: an int token or a string.
Tok(n) == [type |-> "int", int |-> n, str |-> <<>>]
TokS(s) == [type |-> "str", int |-> 0, str |-> s]

\* ProxmoxNode.get_network_name(num): ok is FALSE where the method reaches its
\* last line, error('Unexpected type', __func__), which raises NameError.
get_network_name(base, num) ==
    IF num.type = "int"
    THEN [ok |-> TRUE, name |-> s_vmbr \o IntToStr(base + num.int)]
    ELSE IF StartsWith(num.str, s_vmbr)
    THEN [ok |-> TRUE, name |-> num.str]
    ELSE [ok |-> FALSE, name |-> <<>>]

\* ProxmoxNode.get_networks: the vmbr* interfaces of the host
get_networks(ifaces) == {n \in ifaces : StartsWith(n, s_vmbr)}

VmSpec(id, name, template, options, networks) ==
    [id |-> id, name |-> name, template |-> template, options |-> options,
     networks |-> networks]

s_vmbr0 == s_vmbr \o <<"0">>

\* The deployment descriptions a run may be given.
D_edge ==
    [deployment |-> s_edge_lab,
     options |-> EmptyDict,
     networks |-> <<Tok(5)>>,
     vms |-> <<VmSpec(1, s_router, s_tmpl_a, EmptyDict, <<>>)>>]

D_core ==
    [deployment |-> s_core_lab,
     options |-> [k \in {s_cores} |-> <<"2">>],
     networks |-> <<TokS(s_vmbr0)>>,
     vms |-> <<VmSpec(1, s_fw, s_tmpl_a,
                      [k \in {NetKey(0)} |-> NetValue(s_e1000, s_vmbr0)], <<Tok(5)>>),
               VmSpec(2, s_sw, s_tmpl_b, EmptyDict, <<Tok(5), Tok(6)>>)>>]

Deployments == {D_edge, D_core}

\* The command line.  range is the --range string ('' when not given).
Args(remove, cleanup, dry_run, force, force_delete, autostart, range, vm, exclude) ==
    [remove |-> remove, cleanup_networks |-> cleanup, dry_run |-> dry_run,
     force |-> force, force_delete |-> force_delete, autostart |-> autostart,
     nic_type |-> s_virtio, range |-> range, vm |-> vm, exclude |-> exclude]

NoArgs == Args(FALSE, FALSE, FALSE, FALSE, FALSE, FALSE, <<>>, {}, {})

\* The filters of a run: (--range, positional VM names, --exclude).
Filters ==
    { <<<<>>, {}, {}>>,
      <<<<"1", ",", "2">>, {}, {}>>,
      <<<<>>, {s_fw, s_sw}, {s_fw}>> }

\* The command lines a run may be given.  A flag that the chosen mode never
\* reads is left at its default.
ArgsSet ==
    { Args(FALSE, TRUE, d, f, FALSE, FALSE, <<>>, {}, {}) : d \in BOOLEAN, f \in BOOLEAN }
    \cup { Args(TRUE, FALSE, d, FALSE, FALSE, FALSE, fl[1], fl[2], fl[3]) :
             d \in BOOLEAN, fl \in Filters }
    \cup { Args(FALSE, FALSE, TRUE, FALSE, FALSE, FALSE, fl[1], fl[2], fl[3]) :
             fl \in Filters }
    \cup { Args(FALSE, FALSE, FALSE, f, fd, a, fl[1], fl[2], fl[3]) :
             f \in BOOLEAN, fd \in BOOLEAN, a \in BOOLEAN, fl \in Filters }

\* A VM of the host.
Vm(name, status, config) ==
    [name |-> name, status |-> status, stop_requested |-> FALSE, config |-> config]

\* The description fields a host may hold before the first run.
InitialDescriptions ==
    { [present |-> FALSE, text |-> <<>>],
      [present |-> TRUE, text |-> <<>>],
      [present |-> TRUE, text |-> <<FreeLine>>],
      [present |-> TRUE, text |-> <<BadLine>>],
      [present |-> TRUE, text |-> <<MapLine>>],
      [present |-> TRUE, text |-> <<HdrEmptyLine>>] }

\* ---------------------------------------------------------------- variables
VARIABLES
    description,       \* the node's description field: [present, text]
    qemu,              \* the VMs of the node: vmid -> Vm
    host_ifaces,       \* the network interfaces of the node
    net_pending,       \* the node holds network changes that are not committed
    runs,              \* number of runs started
    pc,                \* where the run is
    outcome,           \* the message of error(), or the exception that ended the run
    args,              \* the command line of the run
    deployment,        \* the deployment description of the run
    networks,          \* proxmox_node.networks
    base_id,           \* proxmox_node.base_id
    multiplier,        \* main: multiplier, 0 while not assigned
    allocated,         \* history: name -> the slot first allocated for it, and the run
    node_deployments,  \* main: node_deployments
    vm_idx,            \* main: position of the loop over vms
    todo,              \* main: the unbound networks still to visit
    cv,                \* create_vm: its local variables
    d,                 \* destroy: its local variables and where it returns to
    calls              \* the mutating remote calls of the run, in order

vars == <<description, qemu, host_ifaces, net_pending, runs, pc, outcome, args,
          deployment, networks, base_id, multiplier, allocated, node_deployments,
          vm_idx, todo, cv, d, calls>>

host_vars == <<description, qemu, host_ifaces, net_pending, allocated>>

\* One mutating remote call.
Call(op, vmid, iface, options) ==
    [op |-> op, vmid |-> vmid, iface |-> iface, options |-> options]

\* The local variables of create_vm, and two history fields: before (vm_options
\* when the loop over the networks begins) and old (the VM found at the target id
\* when create_vm begins).
NoOld == [exists |-> FALSE, vm |-> Vm(<<>>, "", EmptyDict)]

NoCv == [vm_name |-> <<>>, vm_id |-> 0, vm_options |-> EmptyDict, i |-> 0,
         networks |-> <<>>, n |-> 1, new_network |-> FALSE, template |-> <<>>,
         template_id |-> 0, before |-> EmptyDict, old |-> NoOld]

\* The local variables of destroy, the number of status reads (polls), where
\* destroy returns to (ret) and the records destroy has logged with info() (log).
NoD == [id |-> 0, i |-> 0, polls |-> 0, ret |-> "", log |-> <<>>]

Ended == {"done", "fatal", "crashed"}

\* lib.log.error(...): report and end the run.
error(msg) == pc' = "fatal" /\ outcome' = msg

\* An exception that no handler catches ends the run.
Raise(exc) == pc' = "crashed" /\ outcome' = exc

Init ==
    /\ description \in InitialDescriptions
    /\ \E foreign \in BOOLEAN, tmpl_b \in BOOLEAN :
          qemu = [id \in {9000} \cup (IF tmpl_b THEN {9001} ELSE {})
                             \cup (IF foreign THEN {10001} ELSE {}) |->
                    IF id = 9000 THEN Vm(s_tmpl_a, "stopped", EmptyDict)
                    ELSE IF id = 9001 THEN Vm(s_tmpl_b, "stopped", EmptyDict)
                    ELSE Vm(s_other, "running",
                            [k \in {NetKey(0)} |-> NetValue(s_virtio, s_vmbr0)])]
    /\ host_ifaces = {s_eno1, s_vmbr0}
    /\ net_pending = FALSE
    /\ runs = 0
    /\ pc = "idle"
    /\ outcome = ""
    /\ args = NoArgs
    /\ deployment = D_edge
    /\ networks = {}
    /\ base_id = 0
    /\ multiplier = 0
    /\ allocated = <<>>
    /\ node_deployments = PyNone
    /\ vm_idx = 1
    /\ todo = {}
    /\ cv = NoCv
    /\ d = NoD
    /\ calls = <<>>

\* main, to the construction of ProxmoxNode (whose __init__ reads the networks).
StartRun ==
    /\ pc \in Ended \cup {"idle"}
    /\ runs < MaxRuns
    /\ \E a \in ArgsSet, dep \in Deployments :
          /\ args' = a
          /\ deployment' = dep
    /\ runs' = runs + 1
    /\ pc' = "main"
    /\ outcome' = ""
    /\ networks' = get_networks(host_ifaces)
    /\ base_id' = 0
    /\ multiplier' = 0
    /\ node_deployments' = PyNone
    /\ vm_idx' = 1
    /\ todo' = {}
    /\ cv' = NoCv
    /\ d' = NoD
    /\ calls' = <<>>
    /\ UNCHANGED host_vars

\* A main that never takes the cleanup branch.
cleanup_mode_never(a) == FALSE

\* main: if args.cleanup_networks: ... return
cleanup_mode(a) == a.cleanup_networks

\* ------------------------------------------------------------ the registry
\* node_deployments = proxmox_node.get_node_deployments()
ReadRegistry ==
    /\ pc = "main"
    /\ ~cleanup_mode(args)
    /\ LET r == get_node_deployments(description)
       IN  IF r.exc # ""
           THEN Raise(r.exc) /\ UNCHANGED node_deployments
           ELSE pc' = "resolve" /\ node_deployments' = r.value /\ UNCHANGED outcome
    /\ UNCHANGED <<host_vars, runs, args, deployment, networks, base_id, multiplier,
                   vm_idx, todo, cv, d, calls>>

\* ProxmoxNode.set_node_deployments: the one write of the description field.
set_node_deployments(l) ==
    /\ description' = [present |-> TRUE, text |-> yaml_dump(l)]
    /\ calls' = Append(calls, Call("set_description", 0, <<>>, EmptyDict))

\* main: the slot (multiplier) of the deployment name, allocated when it is new.
Resolve ==
    /\ pc = "resolve"
    /\ LET dict == node_deployments_dict(node_deployments)
           name == deployment.deployment
       IN  IF name \in DOMAIN dict
           THEN /\ multiplier' = dict[name]
                /\ base_id' = BaseId(dict[name])
                /\ pc' = "loop"
                /\ UNCHANGED <<outcome, node_deployments, description, calls, allocated>>
           ELSE IF args.remove
           THEN /\ error("deployment not found")
                /\ UNCHANGED <<base_id, multiplier, node_deployments, description,
                               calls, allocated>>
           ELSE IF node_deployments.none
           THEN \* len(None)
                /\ Raise("TypeError")
                /\ UNCHANGED <<base_id, multiplier, node_deployments, description,
                               calls, allocated>>
           ELSE LET m == NewSlot(node_deployments.list)
                    l == Append(node_deployments.list, Entry(name, m))
                IN  /\ multiplier' = m
                    /\ node_deployments' = PyList(l)
                    /\ set_node_deployments(l)
                    /\ base_id' = BaseId(m)
                    /\ allocated' =
                          IF name \in DOMAIN allocated THEN allocated
                          ELSE [n \in (DOMAIN allocated) \cup {name} |->
                                   IF n = name THEN [slot |-> m, run |-> runs]
                                   ELSE allocated[n]]
                    /\ pc' = "loop"
                    /\ UNCHANGED outcome
    /\ UNCHANGED <<qemu, host_ifaces, net_pending, runs, args, deployment, networks,
                   vm_idx, todo, cv, d>>

\* ------------------------------------------------------------- the VM loop
\* [int(e) for e in args.range.split(',')]
RangeArgs(range) ==
    LET parts == Split(range, ",")
    IN  [k \in DOMAIN parts |-> StrToInt(parts[k])]

\* range(*l) for one, two or three arguments (a positive step), as a set
PyRange(l) ==
    IF Len(l) = 1 THEN 0..(l[1] - 1)
    ELSE IF Len(l) = 2 THEN l[1]..(l[2] - 1)
    ELSE {x \in l[1]..(l[2] - 1) : (x - l[1]) % l[3] = 0}

\* Filters where a name on the allow-list is dispatched whatever --exclude says.
Selected_allow_wins(vm, a) ==
    LET range == IF a.range = <<>> THEN {} ELSE PyRange(RangeArgs(a.range))
    IN  /\ ~(range # {} /\ vm.id \notin range)
        /\ IF a.vm # {} THEN vm.name \in a.vm ELSE vm.name \notin a.exclude

\* main, the filters of the loop: the VM is dispatched to create or destroy.
Selected(vm, a) ==
    LET range == IF a.range = <<>> THEN {} ELSE PyRange(RangeArgs(a.range))
    IN  /\ ~(range # {} /\ vm.id \notin range)
        /\ ~(a.vm # {} /\ vm.name \notin a.vm)
        /\ vm.name \notin a.exclude

RECURSIVE FirstFreeNetFrom(_, _)
FirstFreeNetFrom(options, i) ==
    IF NetKey(i) \in DOMAIN options THEN FirstFreeNetFrom(options, i + 1) ELSE i

\* i = 0; while 'net{}'.format(i) in vm_options: i += 1
FirstFreeNet(options) == FirstFreeNetFrom(options, 0)

\* f"{deployment_name}-{vm_name}"
VmName(deployment_name, vm_name) == deployment_name \o <<"-">> \o vm_name

\* create_vm, to the loop over the networks.  No description of the model has a
\* 'serial' option, so that branch of create_vm is never taken.
create_vm_begin(dep, vm) ==
    LET vm_name == VmName(dep.deployment, vm.name)
        merged == DictUpdate(dep.options, vm.options)
        vm_options == DictSet(DictSet(merged, s_vmid, vm.id), s_name, vm_name)
    IN  [vm_name |-> vm_name, vm_id |-> vm.id, vm_options |-> vm_options,
         i |-> FirstFreeNet(vm_options), networks |-> dep.networks \o vm.networks,
         n |-> 1, new_network |-> FALSE, template |-> vm.template, template_id |-> 0,
         before |-> vm_options, old |-> NoOld]

\* main: one turn of the loop over the VMs of the description.
NextVm ==
    /\ pc = "loop"
    /\ IF vm_idx > Len(deployment.vms)
       THEN pc' = "done" /\ UNCHANGED <<vm_idx, cv, d>>
       ELSE LET vm == deployment.vms[vm_idx]
            IN  IF ~Selected(vm, args) \/ args.dry_run
                THEN vm_idx' = vm_idx + 1 /\ UNCHANGED <<pc, cv, d>>
                ELSE IF args.remove
                THEN /\ pc' = "destroy"
                     /\ d' = [NoD EXCEPT !.id = base_id + vm.id, !.ret = "loop"]
                     /\ UNCHANGED <<vm_idx, cv>>
                ELSE /\ pc' = "cv_net"
                     /\ cv' = [create_vm_begin(deployment, vm) EXCEPT !.old =
                                  IF base_id + vm.id \in DOMAIN qemu
                                  THEN [exists |-> TRUE, vm |-> qemu[base_id + vm.id]]
                                  ELSE NoOld]
                     /\ UNCHANGED <<vm_idx, d>>
    /\ UNCHANGED <<host_vars, runs, outcome, args, deployment, networks, base_id, multiplier,
                   node_deployments, todo, calls>>

\* ----------------------------------------------------------------- destroy
\* A test that allows one turn more.
RetryLeftOffByOne(i) == i <= RetryBound

\* ProxmoxNode.destroy: i < 30, the first test of the while loop
RetryLeft(i) == i < RetryBound

\* ProxmoxNode.destroy: the test of the while loop and one turn of its body.
DestroyPoll ==
    /\ pc = "destroy"
    /\ IF RetryLeft(d.i)
       THEN IF d.id \notin DOMAIN qemu
            THEN Raise("ResourceException") /\ UNCHANGED <<d, qemu, calls>>
            ELSE IF qemu[d.id].status = "running"
            THEN /\ qemu' = [qemu EXCEPT ![d.id].stop_requested = TRUE]
                 /\ calls' = Append(calls, Call("stop", d.id, <<>>, EmptyDict))
                 /\ d' = [d EXCEPT !.i = @ + 1, !.polls = @ + 1,
                                    !.log = IF d.i = 0 THEN Append(@, "Stopping VM") ELSE @]
                 /\ UNCHANGED <<pc, outcome>>
            ELSE /\ pc' = "destroy_delete"
                 /\ d' = [d EXCEPT !.polls = @ + 1]
                 /\ UNCHANGED <<qemu, calls, outcome>>
       ELSE pc' = "destroy_delete" /\ UNCHANGED <<d, qemu, calls, outcome>>
    /\ UNCHANGED <<description, allocated, host_ifaces, net_pending, runs, args, deployment,
                   networks, base_id, multiplier, node_deployments, vm_idx, todo, cv>>

\* ProxmoxNode.destroy: self.node.qemu(vm_id).delete(), and the return.
DestroyDelete ==
    /\ pc = "destroy_delete"
    /\ qemu' = [id \in (DOMAIN qemu) \ {d.id} |-> qemu[id]]
    /\ calls' = Append(calls, Call("delete", d.id, <<>>, EmptyDict))
    /\ pc' = d.ret
    /\ vm_idx' = IF d.ret = "loop" THEN vm_idx + 1 ELSE vm_idx
    /\ UNCHANGED <<description, allocated, host_ifaces, net_pending, runs, outcome, args,
                   deployment, networks, base_id, multiplier, node_deployments, todo, cv, d>>

\* The node: a VM that was asked to stop reaches the stopped state.
VmStops ==
    /\ \E id \in DOMAIN qemu :
          /\ qemu[id].status = "running"
          /\ qemu[id].stop_requested
          /\ qemu' = [qemu EXCEPT ![id].status = "stopped", ![id].stop_requested = FALSE]
    /\ UNCHANGED <<description, allocated, host_ifaces, net_pending, runs, pc, outcome, args,
                   deployment, networks, base_id, multiplier, node_deployments, vm_idx, todo, cv,
                   d, calls>>

\* --------------------------------------------------------------- create_vm
\* A test that never finds the bridge.
AlreadyAddedNever(vm_options, bridge) == FALSE

\* create_vm: a net option of vm_options is bound to the bridge.
AlreadyAdded(vm_options, bridge) ==
    \E key \in DOMAIN vm_options :
        /\ StartsWith(key, s_net)
        /\ (s_bridgeEq \o bridge) \in Range(Split(vm_options[key], ","))

\* create_vm: the body of the loop over the networks, on vm_options.
AttachOption(vm_options, i, network_name, nic_type) ==
    LET bridge == Split(network_name, ",")[1]
    IN  IF AlreadyAdded(vm_options, bridge) THEN vm_options
        ELSE DictSet(vm_options, NetKey(i), NetValue(nic_type, bridge))

\* ProxmoxNode.create_network: the bridge is posted and the networks are read again.
create_network(iface_name) ==
    /\ host_ifaces' = host_ifaces \cup {iface_name}
    /\ net_pending' = TRUE
    /\ networks' = get_networks(host_ifaces \cup {iface_name})
    /\ calls' = Append(calls, Call("create_network", 0, iface_name, EmptyDict))

\* create_vm: one turn of the loop over the networks.
AttachNetwork ==
    /\ pc = "cv_net"
    /\ cv.n <= Len(cv.networks)
    /\ LET network == cv.networks[cv.n]
           r == get_network_name(base_id, network)
           attached == [cv EXCEPT
                          !.vm_options = AttachOption(@, cv.i, r.name, args.nic_type),
                          !.i = @ + 1,
                          !.n = @ + 1]
       IN  IF ~r.ok
           THEN /\ Raise("NameError")
                /\ UNCHANGED <<cv, host_ifaces, net_pending, networks, calls>>
           ELSE IF r.name \in networks
           THEN /\ cv' = attached
                /\ UNCHANGED <<pc, outcome, host_ifaces, net_pending, networks, calls>>
           ELSE \E yn \in BOOLEAN :
                  IF args.force \/ yn
                  THEN /\ create_network(get_network_name(base_id, TokS(r.name)).name)
                       /\ cv' = [attached EXCEPT !.new_network = TRUE]
                       /\ UNCHANGED <<pc, outcome>>
                  ELSE /\ error("missing network")
                       /\ UNCHANGED <<cv, host_ifaces, net_pending, networks, calls>>
    /\ UNCHANGED <<description, allocated, qemu, runs, args, deployment, base_id, multiplier,
                   node_deployments, vm_idx, todo, d>>

\* ProxmoxNode.commit_network_config
commit_network_config ==
    /\ net_pending' = FALSE
    /\ calls' = Append(calls, Call("commit_network", 0, <<>>, EmptyDict))

\* create_vm: after the loop, the new networks are committed.
CommitNetworks ==
    /\ pc = "cv_net"
    /\ cv.n > Len(cv.networks)
    /\ IF cv.new_network THEN commit_network_config
       ELSE UNCHANGED <<net_pending, calls>>
    /\ pc' = "cv_check"
    /\ UNCHANGED <<description, allocated, qemu, host_ifaces, runs, outcome, args, deployment,
                   networks, base_id, multiplier, node_deployments, vm_idx, todo, cv, d>>

\* ProxmoxNode.find_template_id: the VMs that have the template's name
TemplateIds(template_name) == {id \in DOMAIN qemu : qemu[id].name = template_name}

\* A policy that destroys with --force-delete whatever the name of the VM.
collision_ignores_name(exists, force_delete, old_name, vm_name) ==
    IF ~exists THEN "clone"
    ELSE IF force_delete THEN "destroy"
    ELSE "exists"

\* A policy that never refuses: it does not read --force-delete.
collision_ignores_flag(exists, force_delete, old_name, vm_name) ==
    IF ~exists THEN "clone"
    ELSE IF old_name = vm_name THEN "destroy"
    ELSE "clone"

\* create_vm: what is done about the target id.
\*   "clone"     no VM is there
\*   "destroy"   the VM there has the name of the new one and --force-delete is given
\*   "mismatch"  error('VM names do not match. Do not delete old VM:', old_name)
\*   "exists"    error(f'VM already exists: {vm_name} ({vm_id})')
collision(exists, force_delete, old_name, vm_name) ==
    IF ~exists THEN "clone"
    ELSE IF force_delete
    THEN IF old_name = vm_name THEN "destroy" ELSE "mismatch"
    ELSE "exists"

\* create_vm: the template is looked up and a VM at the target id is handled.
CheckTarget ==
    /\ pc = "cv_check"
    /\ LET vm_id == base_id + cv.vm_id
           exists == vm_id \in DOMAIN qemu
           old_name == IF exists THEN qemu[vm_id].name ELSE <<>>
           what == collision(exists, args.force_delete, old_name, cv.vm_name)
           ids == TemplateIds(cv.template)
           found == [cv EXCEPT !.template_id =
                        CHOOSE id \in ids : \A o \in ids : id <= o]
       IN  IF cv.template = <<>>
           THEN error("no template name") /\ UNCHANGED <<cv, d>>
           ELSE IF ids = {}
           THEN error("template not found") /\ UNCHANGED <<cv, d>>
           ELSE IF what = "destroy"
           THEN /\ pc' = "destroy"
                /\ d' = [NoD EXCEPT !.id = vm_id, !.ret = "cv_clone"]
                /\ cv' = found
                /\ UNCHANGED outcome
           ELSE IF what = "mismatch"
           THEN error("VM names do not match") /\ UNCHANGED <<cv, d>>
           ELSE IF what = "exists"
           THEN error("VM already exists") /\ UNCHANGED <<cv, d>>
           ELSE pc' = "cv_clone" /\ cv' = found /\ UNCHANGED <<outcome, d>>
    /\ UNCHANGED <<host_vars, runs, args, deployment, networks, base_id, multiplier,
                   node_deployments, vm_idx, todo, calls>>

s_copy_of == <<"C", "o", "p", "y", "-", "o", "f", "-", "V", "M", "-">>

\* ProxmoxNode.clone: the template is cloned to the new id.
Clone ==
    /\ pc = "cv_clone"
    /\ LET vm_id == base_id + cv.vm_id
           new == Vm(s_copy_of \o qemu[cv.template_id].name, "stopped",
                     qemu[cv.template_id].config)
       IN  /\ qemu' = [id \in (DOMAIN qemu) \cup {vm_id} |->
                          IF id = vm_id THEN new ELSE qemu[id]]
           /\ calls' = Append(calls, Call("clone", vm_id, <<>>, EmptyDict))
    /\ pc' = "cv_options"
    /\ UNCHANGED <<description, allocated, host_ifaces, net_pending, runs, outcome, args,
                   deployment, networks, base_id, multiplier, node_deployments, vm_idx, todo, cv, d>>

\* ProxmoxNode.set_options: the options without 'vmid' are set on the VM.
SetOptions ==
    /\ pc = "cv_options"
    /\ LET vm_id == base_id + cv.vm_id
           options == DictDel(cv.vm_options, s_vmid)
       IN  /\ qemu' = [qemu EXCEPT ![vm_id].config = DictUpdate(@, options),
                                   ![vm_id].name = options[s_name]]
           /\ calls' = Append(calls, Call("set_options", vm_id, <<>>, options))
    /\ pc' = "cv_start"
    /\ UNCHANGED <<description, allocated, host_ifaces, net_pending, runs, outcome, args,
                   deployment, networks, base_id, multiplier, node_deployments, vm_idx, todo, cv, d>>

\* create_vm: the VM is started when --autostart is given; back to the loop.
StartVm ==
    /\ pc = "cv_start"
    /\ LET vm_id == base_id + cv.vm_id
       IN  IF args.autostart
           THEN /\ qemu' = [qemu EXCEPT ![vm_id].status = "running"]
                /\ calls' = Append(calls, Call("start", vm_id, <<>>, EmptyDict))
           ELSE UNCHANGED <<qemu, calls>>
    /\ pc' = "loop"
    /\ vm_idx' = vm_idx + 1
    /\ UNCHANGED <<description, allocated, host_ifaces, net_pending, runs, outcome, args,
                   deployment, networks, base_id, multiplier, node_deployments, todo, cv, d>>

\* --------------------------------------------------------- cleanup-networks
\* ProxmoxNode.get_unbound_networks
get_unbound_networks(q, nets) ==
    LET bound_networks ==
            {Strip(p, Range(s_bridgeEq)) :
                p \in UNION {UNION {{x \in Range(Split(q[id].config[key], ",")) :
                                        StartsWith(x, s_bridgeEq)} :
                                    key \in {k \in DOMAIN q[id].config : StartsWith(k, s_net)}} :
                             id \in DOMAIN q}}
    IN  nets \ bound_networks

\* main: the networks are read again and the unbound ones are collected.
CleanupBegin ==
    /\ pc = "main"
    /\ cleanup_mode(args)
    /\ networks' = get_networks(host_ifaces)
    /\ todo' = get_unbound_networks(qemu, get_networks(host_ifaces))
    /\ pc' = "cleanup"
    /\ UNCHANGED <<host_vars, runs, outcome, args, deployment, base_id, multiplier,
                   node_deployments, vm_idx, cv, d, calls>>

\* ProxmoxNode.delete_network
delete_network(iface_name, dry_run) ==
    IF dry_run THEN UNCHANGED <<host_ifaces, net_pending, calls>>
    ELSE /\ host_ifaces' = host_ifaces \ {iface_name}
         /\ net_pending' = TRUE
         /\ calls' = Append(calls, Call("delete_network", 0, iface_name, EmptyDict))

\* main: one unbound network is deleted, when confirmed.
CleanupNetwork ==
    /\ pc = "cleanup"
    /\ \E network \in todo, yn \in BOOLEAN :
          /\ IF args.force \/ args.dry_run \/ yn
             THEN delete_network(network, args.dry_run)
             ELSE UNCHANGED <<host_ifaces, net_pending, calls>>
          /\ todo' = todo \ {network}
    /\ UNCHANGED <<description, allocated, qemu, runs, pc, outcome, args, deployment, networks,
                   base_id, multiplier, node_deployments, vm_idx, cv, d>>

\* main: the network changes are committed and the run returns.
CleanupCommit ==
    /\ pc = "cleanup"
    /\ todo = {}
    /\ commit_network_config
    /\ pc' = "done"
    /\ UNCHANGED <<description, allocated, qemu, host_ifaces, runs, outcome, args, deployment,
                   networks, base_id, multiplier, node_deployments, vm_idx, todo, cv, d>>

\* ------------------------------------------------------------ specification
Next ==
    \/ StartRun
    \/ CleanupBegin
    \/ CleanupNetwork
    \/ CleanupCommit
    \/ ReadRegistry
    \/ Resolve
    \/ NextVm
    \/ DestroyPoll
    \/ DestroyDelete
    \/ VmStops
    \/ AttachNetwork
    \/ CommitNetworks
    \/ CheckTarget
    \/ Clone
    \/ SetOptions
    \/ StartVm

Spec == Init /\ [][Next]_vars

\* ------------------------------------- the network loop on enumerated inputs
s_vmbr10005 == s_vmbr \o IntToStr(BaseId(1) + 5)
s_vmbr10005_tag == s_vmbr10005 \o <<",", "t", "a", "g", "=", "7">>

\* The networks a description may list: a token, a bridge name, and a bridge
\* name that is followed by further attributes.
AttachTokens == {Tok(5), TokS(s_vmbr0), TokS(s_vmbr10005_tag)}

\* The values a description may give a net<N> option.
AttachValues == {NetValue(s_virtio, s_vmbr0), NetValue(s_e1000, s_vmbr10005)}

SeqsUpTo(S, n) == UNION {[1..k -> S] : k \in 0..n}

\* The net<N> options a description may give.
AttachOptions ==
    UNION {[K -> AttachValues] : K \in SUBSET {NetKey(k) : k \in 0..MaxNetIndex}}

\* Descriptions of one VM, with every option set and every network list, given
\* as the deployment's networks or, but for the first, as the VM's networks.
AttachDeployments ==
    {[deployment |-> s_edge_lab, options |-> EmptyDict,
      networks |-> SubSeq(l, 1, IF j < Len(l) THEN j ELSE Len(l)),
      vms |-> <<VmSpec(1, s_router, s_tmpl_a, o,
                       SubSeq(l, (IF j < Len(l) THEN j ELSE Len(l)) + 1, Len(l)))>>] :
        l \in SeqsUpTo(AttachTokens, MaxNets),
        j \in {1, MaxNets},
        o \in AttachOptions}

\* create_vm at its loop over the networks, in a create run for a deployment
\* that was given slot 1.
InitAttach ==
    /\ deployment \in AttachDeployments
    /\ args \in {Args(FALSE, FALSE, FALSE, f, FALSE, FALSE, <<>>, {}, {}) : f \in BOOLEAN}
    /\ description = [present |-> TRUE, text |-> yaml_dump(<<Entry(s_edge_lab, 1)>>)]
    /\ allocated = [n \in {s_edge_lab} |-> [slot |-> 1, run |-> 1]]
    /\ qemu = [id \in {9000} |-> Vm(s_tmpl_a, "stopped", EmptyDict)]
    /\ host_ifaces = {s_eno1, s_vmbr0}
    /\ net_pending = FALSE
    /\ runs = 1
    /\ pc = "cv_net"
    /\ outcome = ""
    /\ networks = get_networks({s_eno1, s_vmbr0})
    /\ base_id = BaseId(1)
    /\ multiplier = 1
    /\ node_deployments = PyList(<<Entry(s_edge_lab, 1)>>)
    /\ vm_idx = 1
    /\ todo = {}
    /\ cv = create_vm_begin(deployment, deployment.vms[1])
    /\ d = NoD
    /\ calls = <<Call("set_description", 0, <<>>, EmptyDict)>>

NextAttach ==
    \/ AttachNetwork
    \/ CommitNetworks

SpecAttach == InitAttach /\ [][NextAttach]_vars

\* The run takes its next step: the script is sequential and never waits for
\* anything but the node.  The node is not required to stop a VM.
FairSpec ==
    /\ Spec
    /\ WF_vars(DestroyPoll)
    /\ WF_vars(DestroyDelete)

\* ------------------------------------- the VM loop on enumerated filters
\* --range arguments: not given, range(2), range(1, 2), range(1, 1), range(0, 3, 2)
RangeStrings ==
    { <<>>,
      <<"2">>,
      <<"1", ",", "2">>,
      <<"1", ",", "1">>,
      <<"0", ",", "3", ",", "2">> }

\* The positional VM names, and the --exclude names, of a command line.
FilterNames == { {}, {s_fw}, {s_fw, s_sw} }

\* Create and remove runs with every combination of the three filters.
FilterArgs ==
    { Args(r, FALSE, FALSE, TRUE, FALSE, FALSE, rg, v, x) :
        r \in BOOLEAN, rg \in RangeStrings, v \in FilterNames, x \in FilterNames }

\* main at its loop over the VMs, in a run for a deployment that holds slot 1;
\* the VMs of the deployment are on the host, or none of them is.
InitFilter ==
    /\ deployment = D_core
    /\ args \in FilterArgs
    /\ description = [present |-> TRUE, text |-> yaml_dump(<<Entry(s_core_lab, 1)>>)]
    /\ allocated = [n \in {s_core_lab} |-> [slot |-> 1, run |-> 1]]
    /\ \E deployed \in BOOLEAN :
          qemu = [id \in {9000, 9001} \cup
                         (IF deployed THEN {BaseId(1) + 1, BaseId(1) + 2} ELSE {}) |->
                    IF id = 9000 THEN Vm(s_tmpl_a, "stopped", EmptyDict)
                    ELSE IF id = 9001 THEN Vm(s_tmpl_b, "stopped", EmptyDict)
                    ELSE IF id = BaseId(1) + 1
                    THEN Vm(VmName(s_core_lab, s_fw), "stopped", EmptyDict)
                    ELSE Vm(VmName(s_core_lab, s_sw), "running", EmptyDict)]
    /\ host_ifaces = {s_eno1, s_vmbr0}
    /\ net_pending = FALSE
    /\ runs = 1
    /\ pc = "loop"
    /\ outcome = ""
    /\ networks = get_networks({s_eno1, s_vmbr0})
    /\ base_id = BaseId(1)
    /\ multiplier = 1
    /\ node_deployments = PyList(<<Entry(s_core_lab, 1)>>)
    /\ vm_idx = 1
    /\ todo = {}
    /\ cv = NoCv
    /\ d = NoD
    /\ calls = <<>>

NextFilter ==
    \/ NextVm
    \/ DestroyPoll
    \/ DestroyDelete
    \/ VmStops
    \/ AttachNetwork
    \/ CommitNetworks
    \/ CheckTarget
    \/ Clone
    \/ SetOptions
    \/ StartVm

SpecFilter == InitFilter /\ [][NextFilter]_vars

\* ----------------------------------- the bridge sweep on enumerated hosts
s_vmbredge == s_vmbr \o <<"e", "d", "g", "e">>
s_firewall == <<",", "f", "i", "r", "e", "w", "a", "l", "l", "=", "1">>

\* The bridges a host may have: get_network_name takes every name that starts
\* with 'vmbr' for a bridge.
SweepBridges == {s_vmbr0, s_vmbr10005, s_vmbredge}

\* The values a VM of the host may have for a net<N> option.
SweepValues ==
    { NetValue(s_virtio, s_vmbr0),
      NetValue(s_e1000, s_vmbr10005) \o s_firewall,
      NetValue(s_virtio, s_vmbredge) }

\* The net<N> options a VM of the host may have.
SweepConfigs == UNION {[K -> SweepValues] : K \in SUBSET {NetKey(0), NetKey(1)}}

\* main before its cleanup branch, on a host with a template and one other VM.
InitCleanup ==
    /\ args \in {Args(FALSE, TRUE, dr, f, FALSE, FALSE, <<>>, {}, {}) :
                    dr \in BOOLEAN, f \in BOOLEAN}
    /\ deployment = D_edge
    /\ description = [present |-> FALSE, text |-> <<>>]
    /\ allocated = <<>>
    /\ \E config \in SweepConfigs :
          qemu = [id \in {9000, 10001} |->
                    IF id = 9000 THEN Vm(s_tmpl_a, "stopped", EmptyDict)
                    ELSE Vm(s_other, "running", config)]
    /\ \E B \in SUBSET SweepBridges : host_ifaces = {s_eno1} \cup B
    /\ net_pending = FALSE
    /\ runs = 1
    /\ pc = "main"
    /\ outcome = ""
    /\ networks = get_networks(host_ifaces)
    /\ base_id = 0
    /\ multiplier = 0
    /\ node_deployments = PyNone
    /\ vm_idx = 1
    /\ todo = {}
    /\ cv = NoCv
    /\ d = NoD
    /\ calls = <<>>

NextCleanup ==
    \/ CleanupBegin
    \/ CleanupNetwork
    \/ CleanupCommit

SpecCleanup == InitCleanup /\ [][NextCleanup]_vars

\* ------------------------------------------ two runs against the same host
\* Two create runs that are started before either has read the registry.  In
\* this specification pc, deployment, node_deployments, multiplier and base_id
\* hold one value per run; a run takes two steps, the read of the description
\* field (main, 303) and the resolution with its write (main, 304-320), and the
\* steps of the two runs interleave in any order.  allocated holds the
\* registry that the host had before the runs.
Procs == {1, 2}

\* The registries the host may hold before the runs.
RaceRegistries ==
    { <<>>,
      <<Entry(s_other, 1)>>,
      <<Entry(s_edge_lab, 1)>>,
      <<Entry(s_other, 1), Entry(s_core_lab, 2)>> }

InitRace ==
    /\ \E reg \in RaceRegistries :
          /\ description = [present |-> TRUE, text |-> yaml_dump(reg)]
          /\ allocated = [n \in {reg[k].name : k \in DOMAIN reg} |->
                            [slot |-> node_deployments_dict(PyList(reg))[n], run |-> 0]]
    /\ deployment \in [Procs -> Deployments]
    /\ pc = [r \in Procs |-> "main"]
    /\ node_deployments = [r \in Procs |-> PyNone]
    /\ multiplier = [r \in Procs |-> 0]
    /\ base_id = [r \in Procs |-> 0]
    /\ args = NoArgs
    /\ qemu = [id \in {9000} |-> Vm(s_tmpl_a, "stopped", EmptyDict)]
    /\ host_ifaces = {s_eno1, s_vmbr0}
    /\ net_pending = FALSE
    /\ runs = 2
    /\ outcome = ""
    /\ networks = get_networks({s_eno1, s_vmbr0})
    /\ vm_idx = 1
    /\ todo = {}
    /\ cv = NoCv
    /\ d = NoD
    /\ calls = <<>>

\* Run r: node_deployments = proxmox_node.get_node_deployments()
RaceRead(r) ==
    /\ pc[r] = "main"
    /\ pc' = [pc EXCEPT ![r] = "resolve"]
    /\ node_deployments' = [node_deployments EXCEPT ![r] = get_node_deployments(description).value]
    /\ UNCHANGED <<host_vars, runs, outcome, args, deployment, networks, base_id, multiplier,
                   vm_idx, todo, cv, d, calls>>

\* Run r: the slot of its name, from the registry it has read; a new name is
\* appended to that registry, which is written to the description field.
RaceResolve(r) ==
    /\ pc[r] = "resolve"
    /\ LET dict == node_deployments_dict(node_deployments[r])
           name == deployment[r].deployment
       IN  IF name \in DOMAIN dict
           THEN /\ multiplier' = [multiplier EXCEPT ![r] = dict[name]]
                /\ base_id' = [base_id EXCEPT ![r] = BaseId(dict[name])]
                /\ UNCHANGED <<node_deployments, description, calls>>
           ELSE LET m == NewSlot(node_deployments[r].list)
                    l == Append(node_deployments[r].list, Entry(name, m))
                IN  /\ multiplier' = [multiplier EXCEPT ![r] = m]
                    /\ base_id' = [base_id EXCEPT ![r] = BaseId(m)]
                    /\ node_deployments' = [node_deployments EXCEPT ![r] = PyList(l)]
                    /\ set_node_deployments(l)
    /\ pc' = [pc EXCEPT ![r] = "loop"]
    /\ UNCHANGED <<allocated, qemu, host_ifaces, net_pending, runs, outcome, args, deployment,
                   networks, vm_idx, todo, cv, d>>

NextRace ==
    \/ \E r \in Procs : RaceRead(r)
    \/ \E r \in Procs : RaceResolve(r)

SpecRace == InitRace /\ [][NextRace]_vars

\* ------------------------------------------------------------------ claims
\* The run has written the description field.
Wrote == \E k \in DOMAIN calls : calls[k].op = "set_description"

\* The registry a description field holds, as the script reads it.
RegistryOf(desc) == get_node_deployments(desc).value.list

\* The description field holds a registry: a mapping with a 'deployments' list.
WellFormed(desc) ==
    LET doc == yaml_safe_load(desc)
    IN  doc.exc = "" /\ doc.tag = "map" /\ ~doc.deployments.none

\* C1: a name that is in the registry resolves to the slot it was first given,
\* and a run that resolves a name an earlier run was given a slot for does not
\* write the description field.
C1_SlotStable ==
    multiplier # 0 =>
        LET name == deployment.deployment
            persisted == node_deployments_dict(PyList(RegistryOf(description)))
        IN  /\ name \in DOMAIN allocated
            /\ multiplier = allocated[name].slot
            /\ name \in DOMAIN persisted
            /\ persisted[name] = multiplier
            /\ allocated[name].run < runs => ~Wrote

\* A later run has resolved a name that an earlier run allocated, and has ended.
C1_Witness ==
    /\ multiplier # 0
    /\ deployment.deployment \in DOMAIN allocated
    /\ allocated[deployment.deployment].run < runs
    /\ pc = "done"

\* C2: two distinct names that were given slots have distinct slots, their id
\* ranges base .. base + 9999 are disjoint, and every VM call of a run addresses
\* an id in the range of the run's deployment.
C2_DistinctSlots ==
    /\ \A n1, n2 \in DOMAIN allocated :
          n1 # n2 =>
              LET b1 == BaseId(allocated[n1].slot)
                  b2 == BaseId(allocated[n2].slot)
              IN  /\ allocated[n1].slot # allocated[n2].slot
                  /\ (b1 + (SlotSize - 1) < b2) \/ (b2 + (SlotSize - 1) < b1)
    /\ \A k \in DOMAIN calls :
          calls[k].vmid # 0 =>
              /\ deployment.deployment \in DOMAIN allocated
              /\ calls[k].vmid >= BaseId(allocated[deployment.deployment].slot)
              /\ calls[k].vmid <= BaseId(allocated[deployment.deployment].slot)
                                     + (SlotSize - 1)

\* Two names hold slots and the run of the second one has cloned a VM.
C2_Witness ==
    /\ Cardinality(DOMAIN allocated) = 2
    /\ \E k \in DOMAIN calls : calls[k].op = "clone"
    /\ allocated[deployment.deployment].slot = 2

\* C3: a remove run for a name that has no entry in the registry ends with the
\* 'deployment not found' error and has made no mutating call.
C3_RemoveUnknown ==
    (/\ pc \in Ended
     /\ args.remove
     /\ ~args.cleanup_networks
     /\ \A k \in DOMAIN RegistryOf(description) :
           RegistryOf(description)[k].name # deployment.deployment)
    => (pc = "fatal" /\ outcome = "deployment not found" /\ calls = <<>>)

\* C4: a description field that holds no registry is read as the empty registry
\* and does not make the run fail.
C4_MalformedIsEmpty ==
    (~WellFormed(description) /\ ~args.cleanup_networks) =>
        /\ pc = "resolve" => node_deployments = PyList(<<>>)
        /\ pc # "crashed"

\* C5: the step that allocates a slot for a new name writes the description
\* field once in the run; the registry read back holds the entries it held
\* before, in their order, then the new entry, whose slot no entry had; and it
\* is the sequence that was written.
C5_AppendOnly ==
    [][(/\ pc = "resolve"
        /\ pc' = "loop"
        /\ \A k \in DOMAIN RegistryOf(description) :
              RegistryOf(description)[k].name # deployment.deployment)
       => LET old == RegistryOf(description)
              new == RegistryOf(description')
          IN  /\ calls' = Append(calls, Call("set_description", 0, <<>>, EmptyDict))
              /\ Cardinality({k \in DOMAIN calls' : calls'[k].op = "set_description"}) = 1
              /\ Len(new) = Len(old) + 1
              /\ SubSeq(new, 1, Len(old)) = old
              /\ new[Len(new)] = Entry(deployment.deployment, multiplier')
              /\ \A k \in DOMAIN old : old[k].slot # multiplier'
              /\ new = node_deployments'.list
      ]_vars

\* The second name was appended to the registry by this run.
C5_Witness ==
    /\ Len(RegistryOf(description)) = 2
    /\ Wrote
    /\ RegistryOf(description)[2].name = deployment.deployment

\* The id that create_vm works on.
Target == base_id + cv.vm_id

\* The VM found at the target id is as it was, and no call of the run names the id.
Untouched ==
    /\ Target \in DOMAIN qemu
    /\ qemu[Target] = cv.old.vm
    /\ \A k \in DOMAIN calls : calls[k].vmid # Target

\* C6: with --force-delete and a VM of another name at the target id, create_vm
\* does not go past its check: the run ends with error(), the VM is neither
\* stopped nor deleted, and nothing is cloned.
C6_MismatchKeepsVm ==
    (cv.old.exists /\ args.force_delete /\ cv.old.vm.name # cv.vm_name) =>
        /\ pc \in {"cv_net", "cv_check", "fatal"}
        /\ Untouched

C6_Witness ==
    /\ cv.old.exists
    /\ args.force_delete
    /\ cv.old.vm.name # cv.vm_name
    /\ pc = "fatal"
    /\ outcome = "VM names do not match"

\* C7: without --force-delete and with a VM at the target id, create_vm does
\* not go past its check: the run ends with error() and no stop, delete, clone
\* or configuration call names the id.
C7_ExistingKeepsVm ==
    (cv.old.exists /\ ~args.force_delete) =>
        /\ pc \in {"cv_net", "cv_check", "fatal"}
        /\ Untouched

C7_Witness ==
    /\ cv.old.exists
    /\ ~args.force_delete
    /\ pc = "fatal"
    /\ outcome = "VM already exists"

\* C10: a run with --dry-run makes no mutating remote call.
C10_DryRunNoMutation == args.dry_run => calls = <<>>

\* The calls of the run that name the id destroy works on.
DestroyCalls(op) == {k \in DOMAIN calls : calls[k].op = op /\ calls[k].vmid = d.id}

\* C9: destroy polls the status at most 30 times and issues stop at most 30
\* times, it deletes at most once and not before the loop is left, and a
\* destroy of a VM that exists reaches the state after its one delete, also
\* when the VM never stops.
C9_DestroyDeletes ==
    /\ [](/\ d.polls <= RetryBound
          /\ Cardinality(DestroyCalls("stop")) <= RetryBound
          /\ Cardinality(DestroyCalls("delete")) <= 1
          /\ pc \in {"destroy", "destroy_delete"} => DestroyCalls("delete") = {})
    /\ (pc = "destroy" /\ d.id \in DOMAIN qemu)
          ~> (pc \notin {"destroy", "destroy_delete"}
              /\ Cardinality(DestroyCalls("delete")) = 1)

\* destroy has used all its turns on a VM that still runs, and has deleted it.
C9_Witness ==
    /\ d.i = RetryBound
    /\ d.polls = RetryBound
    /\ Cardinality(DestroyCalls("stop")) = RetryBound
    /\ Cardinality(DestroyCalls("delete")) = 1

\* The net options of a dict that are bound to the bridge.
BoundTo(options, bridge) ==
    {key \in DOMAIN options :
        /\ StartsWith(key, s_net)
        /\ (s_bridgeEq \o bridge) \in Range(Split(options[key], ","))}

\* The bridges that the net options of a dict name.
BridgesOf(options) ==
    {SubSeq(p, Len(s_bridgeEq) + 1, Len(p)) :
        p \in UNION {{x \in Range(Split(options[key], ",")) : StartsWith(x, s_bridgeEq)} :
                     key \in {k \in DOMAIN options : StartsWith(k, s_net)}}}

\* The options that the loop over the networks has set.
AddedKeys ==
    {key \in DOMAIN cv.vm_options :
        key \notin DOMAIN cv.before \/ cv.vm_options[key] # cv.before[key]}

\* C8: for every bridge, vm_options holds at most one net option bound to it
\* more than the merged options held, none more when the merged options held
\* one, and at most one that the loop over the networks has set.
C8_OnePerBridge ==
    \A bridge \in BridgesOf(cv.vm_options) \cup BridgesOf(cv.before) :
        LET had == Cardinality(BoundTo(cv.before, bridge))
            has == Cardinality(BoundTo(cv.vm_options, bridge))
        IN  /\ has <= had + 1
            /\ had >= 1 => has <= had
            /\ Cardinality(BoundTo(cv.vm_options, bridge) \cap AddedKeys) <= 1

\* The loop has ended on a list that names a bridge twice and names a bridge
\* that a merged option was bound to; one option was set.
C8_Witness ==
    /\ pc = "cv_check"
    /\ \E j, k \in DOMAIN cv.networks :
          /\ j < k
          /\ get_network_name(base_id, cv.networks[j]).name
                = get_network_name(base_id, cv.networks[k]).name
          /\ BoundTo(cv.before, get_network_name(base_id, cv.networks[j]).name) = {}
    /\ \E k \in DOMAIN cv.networks :
          BoundTo(cv.before, Split(get_network_name(base_id, cv.networks[k]).name, ",")[1]) # {}
    /\ Cardinality(AddedKeys) = 1

\* The run is inside create_vm or destroy.
Dispatching ==
    pc \in {"destroy", "destroy_delete", "cv_net", "cv_check", "cv_clone",
            "cv_options", "cv_start"}

\* The VM at position j of the description was dispatched to create_vm or
\* destroy: a call names its id, or the run is in, or has ended in, its dispatch.
Dispatched(j) ==
    \/ \E k \in DOMAIN calls : calls[k].vmid = base_id + deployment.vms[j].id
    \/ /\ j = vm_idx
       /\ Dispatching \/ (pc \in {"fatal", "crashed"} /\ multiplier # 0)

\* C11: a VM that is dispatched is not named by --exclude, and is named by the
\* positional VM names when there are any.
C11_ExcludeWins ==
    \A j \in DOMAIN deployment.vms :
        Dispatched(j) =>
            /\ deployment.vms[j].name \notin args.exclude
            /\ args.vm # {} => deployment.vms[j].name \in args.vm

\* A run that names a VM on both lists has ended; it dispatched another VM of
\* the allow-list and not the VM on both lists.
C11_Witness ==
    /\ pc = "done"
    /\ \E j, k \in DOMAIN deployment.vms :
          /\ deployment.vms[j].name \in args.vm \cap args.exclude
          /\ ~Dispatched(j)
          /\ deployment.vms[k].name \in args.vm
          /\ Dispatched(k)

\* C19: with --range given, a VM that is dispatched has its id in the range.
C19_RangeFilters ==
    args.range # <<>> =>
        \A j \in DOMAIN deployment.vms :
            Dispatched(j) => deployment.vms[j].id \in PyRange(RangeArgs(args.range))

\* C12: a run with --cleanup-networks issues only bridge deletes and network
\* commits; it never reads or resolves the registry, has no slot and no base
\* id, and never enters the loop over the VMs, create_vm or destroy.
C12_CleanupOnlySweeps ==
    args.cleanup_networks =>
        /\ \A k \in DOMAIN calls : calls[k].op \in {"delete_network", "commit_network"}
        /\ pc \in {"main", "cleanup", "done"}
        /\ node_deployments = PyNone
        /\ multiplier = 0
        /\ base_id = 0
        /\ vm_idx = 1
        /\ cv = NoCv
        /\ d = NoD

\* A cleanup run has deleted a bridge, committed, and returned.
C12_Witness ==
    /\ args.cleanup_networks
    /\ pc = "done"
    /\ \E k \in DOMAIN calls : calls[k].op = "delete_network"
    /\ calls[Len(calls)].op = "commit_network"

\* C13: a bridge delete is issued only outside dry-run, for a bridge that the
\* run found on the host and that no net option of a VM of the host names.
C13_SweepSparesBound ==
    \A k \in DOMAIN calls :
        calls[k].op = "delete_network" =>
            /\ ~args.dry_run
            /\ calls[k].iface \in networks
            /\ \A id \in DOMAIN qemu : calls[k].iface \notin BridgesOf(qemu[id].config)

\* C14: a create run of the edge-lab description that found the registry empty
\* and has returned was given slot 1 and base id 10000; the host has the bridge
\* vmbr10005, committed; VM 10001 exists, is named edge-lab-router and has net0
\* bound to vmbr10005; and the calls of the run are the registry write, the
\* bridge creation, the commit, the clone to 10001 and the options without
\* 'vmid' (and the start with --autostart).
C14_EdgeLabScenario ==
    (/\ pc = "done"
     /\ deployment = D_edge
     /\ ~args.remove /\ ~args.cleanup_networks /\ ~args.dry_run
     /\ Selected(D_edge.vms[1], args)
     /\ DOMAIN allocated = {s_edge_lab}
     /\ allocated[s_edge_lab].run = runs)
    => LET router == <<"e", "d", "g", "e", "-", "l", "a", "b", "-", "r", "o", "u", "t", "e", "r">>
           net0 == <<"v", "i", "r", "t", "i", "o", ",", "b", "r", "i", "d", "g", "e", "=", "v", "m", "b", "r", "1", "0", "0", "0", "5">>
           bridge == <<"v", "m", "b", "r", "1", "0", "0", "0", "5">>
       IN  /\ multiplier = 1
           /\ base_id = 10000
           /\ bridge \in host_ifaces
           /\ ~net_pending
           /\ 10001 \in DOMAIN qemu
           /\ qemu[10001].name = router
           /\ qemu[10001].config[NetKey(0)] = net0
           /\ calls =
                 << Call("set_description", 0, <<>>, EmptyDict),
                    Call("create_network", 0, bridge, EmptyDict),
                    Call("commit_network", 0, <<>>, EmptyDict),
                    Call("clone", 10001, <<>>, EmptyDict),
                    Call("set_options", 10001, <<>>,
                         (s_name :> router) @@ (NetKey(0) :> net0)) >>
                 \o (IF args.autostart
                     THEN <<Call("start", 10001, <<>>, EmptyDict)>> ELSE <<>>)

\* The first run was such a run and has returned.
C14_Witness ==
    /\ pc = "done"
    /\ runs = 1
    /\ deployment = D_edge
    /\ ~args.remove /\ ~args.cleanup_networks /\ ~args.dry_run
    /\ Selected(D_edge.vms[1], args)
    /\ DOMAIN allocated = {s_edge_lab}
    /\ 10001 \in DOMAIN qemu

\* C15: a remove run for a deployment that has a slot returns without failing,
\* whatever VMs of the deployment are on the host, and leaves none of the VMs
\* it selects on the host.
C15_RemoveIdempotent ==
    (args.remove /\ ~args.dry_run /\ multiplier # 0 /\ pc \in Ended) =>
        /\ pc = "done"
        /\ \A j \in DOMAIN deployment.vms :
              Selected(deployment.vms[j], args) =>
                  base_id + deployment.vms[j].id \notin DOMAIN qemu

\* C16: every option that vm_options held when the loop over the networks
\* began is still there with the value it had.
C16_KeepsMergedOptions ==
    \A key \in DOMAIN cv.before :
        /\ key \in DOMAIN cv.vm_options
        /\ cv.vm_options[key] = cv.before[key]

\* C17: when destroy has used all its turns and has deleted the VM, it has
\* logged a record that a destroy after a clean stop does not log.
C17_TimeoutFlagged ==
    (d.i = RetryBound /\ Cardinality(DestroyCalls("delete")) = 1) =>
        \E k \in DOMAIN d.log : d.log[k] # "Stopping VM"

\* C18: a bridge creation is followed by a network commit before the next
\* clone, and before the run ends.
C18_CreationCommitted ==
    /\ \A j, k \in DOMAIN calls :
          (j < k /\ calls[j].op = "create_network" /\ calls[k].op = "clone") =>
              \E m \in DOMAIN calls : j < m /\ m < k /\ calls[m].op = "commit_network"
    /\ pc \in Ended =>
          \A j \in DOMAIN calls :
              calls[j].op = "create_network" =>
                  \E m \in DOMAIN calls : j < m /\ calls[m].op = "commit_network"

\* The positions of the persisted registry that hold an entry for the name.
PersistedAt(name) ==
    {k \in DOMAIN RegistryOf(description) : RegistryOf(description)[k].name = name}

\* The persisted registry holds one entry for the name, with the slot.
PersistedAs(name, slot) ==
    /\ Cardinality(PersistedAt(name)) = 1
    /\ \A k \in PersistedAt(name) : RegistryOf(description)[k].slot = slot

\* C20: when two interleaved runs have resolved their names, the entries the
\* registry held before are persisted; a run of a name that was in the registry
\* has its slot; two runs of the same new name have one slot and the registry
\* holds one entry for it; two runs of distinct new names either have distinct
\* slots, both persisted, or have the same slot and the registry holds the
\* entry of one of them only.
C20_RaceOutcomes ==
    (\A r \in Procs : pc[r] = "loop") =>
        LET n1 == deployment[1].deployment
            n2 == deployment[2].deployment
            new(n) == n \notin DOMAIN allocated
        IN  /\ \A n \in DOMAIN allocated : PersistedAs(n, allocated[n].slot)
            /\ \A r \in Procs :
                  ~new(deployment[r].deployment) =>
                      multiplier[r] = allocated[deployment[r].deployment].slot
            /\ (n1 = n2 /\ new(n1)) =>
                  /\ multiplier[1] = multiplier[2]
                  /\ PersistedAs(n1, multiplier[1])
            /\ (n1 # n2 /\ new(n1) /\ new(n2)) =>
                  \/ /\ multiplier[1] # multiplier[2]
                     /\ PersistedAs(n1, multiplier[1])
                     /\ PersistedAs(n2, multiplier[2])
                  \/ /\ multiplier[1] = multiplier[2]
                     /\ \/ PersistedAs(n1, multiplier[1]) /\ PersistedAt(n2) = {}
                        \/ PersistedAs(n2, multiplier[2]) /\ PersistedAt(n1) = {}
            /\ (n1 # n2 /\ new(n1) /\ ~new(n2)) => PersistedAs(n1, multiplier[1])
            /\ (n1 # n2 /\ ~new(n1) /\ new(n2)) => PersistedAs(n2, multiplier[2])

\* Two runs of distinct new names have resolved the same slot, and the
\* registry holds no entry for the name of the first.
C20_Witness ==
    /\ \A r \in Procs : pc[r] = "loop"
    /\ deployment[1].deployment # deployment[2].deployment
    /\ \A r \in Procs : deployment[r].deployment \notin DOMAIN allocated
    /\ multiplier[1] = multiplier[2]
    /\ base_id[1] = base_id[2]
    /\ PersistedAt(deployment[1].deployment) = {}

====
